---- MODULE Spec2Model ----
(***************************************************************************)
(* Model of the JSON reader for sound-synthesis configuration              *)
(* (src/json_reader.py) and of the validator's checks                      *)
(* (src/validate_config.py).                                               *)
(*                                                                         *)
(* JSON values are tagged records: Null, Str, Num, Bool, List, Dict.  A    *)
(* Dict holds a function from key strings to JSON values.  Numbers are     *)
(* integers; weights and scores are counted in tenths (1.0 is 10, 0.8 is   *)
(* 8, 1.2 is 12).  The mappings of the catalogs that the code iterates in  *)
(* document order ("groups", "guitar_types", "sections") are sequences of  *)
(* name/data entries, so that a later record overwrites an earlier one.    *)
(***************************************************************************)
EXTENDS Integers, Sequences, FiniteSets, TLC

VARIABLES guitar_data, group_data, moods_data, synthesizer_data, structure_data,
          internal_layering, internal_scores,
          pc, user_preferences, clean_config, saved_file,
          tree, once, twice, cpc,
          call_instruments, call_groups, call_config

vars == <<guitar_data, group_data, moods_data, synthesizer_data, structure_data,
          internal_layering, internal_scores,
          pc, user_preferences, clean_config, saved_file,
          tree, once, twice, cpc,
          call_instruments, call_groups, call_config>>

readerVars == <<guitar_data, group_data, moods_data, synthesizer_data, structure_data,
                internal_layering, internal_scores,
                pc, user_preferences, clean_config, saved_file>>

cleanVars == <<tree, once, twice, cpc>>

(* the locals of generate_clean_config, seen when it is followed statement *)
(* by statement                                                            *)
callVars == <<call_instruments, call_groups, call_config>>

----------------------------------------------------------------------------
(* JSON values as json.load produces them *)

Null == [t |-> "null"]

Str(s) == [t |-> "str", s |-> s]

Num(n) == [t |-> "num", n |-> n]

Bool(b) == [t |-> "bool", b |-> b]

List(l) == [t |-> "list", l |-> l]

Dict(d) == [t |-> "dict", d |-> d]

EmptyMap == [k \in {} |-> Null]

(* a mapping with the one key k *)
One(k, v) == [x \in {k} |-> v]

(* dict.update / item assignment: the entries of g overwrite those of f *)
Update(f, g) == [k \in (DOMAIN f) \cup (DOMAIN g) |-> IF k \in DOMAIN g THEN g[k] ELSE f[k]]

(* Python truth value of a JSON value *)
Truthy(v) ==
    CASE v.t = "null" -> FALSE
      [] v.t = "str"  -> v.s # ""
      [] v.t = "num"  -> v.n # 0
      [] v.t = "bool" -> v.b
      [] v.t = "list" -> v.l # <<>>
      [] v.t = "dict" -> DOMAIN v.d # {}

----------------------------------------------------------------------------
(* String operations, as tables over the strings of the model *)

LowerTable ==
    [s \in {"Intro Pad", "Intro_Pad", "Warm", "Energetic", "Score", "Layer",
            "Energetic, Warm"} |->
        CASE s = "Intro Pad" -> "intro pad"
          [] s = "Intro_Pad" -> "intro_pad"
          [] s = "Warm"      -> "warm"
          [] s = "Energetic" -> "energetic"
          [] s = "Score"     -> "score"
          [] s = "Layer"     -> "layer"
          [] s = "Energetic, Warm" -> "energetic, warm"]

(* str.lower() *)
Lower(s) == IF s \in DOMAIN LowerTable THEN LowerTable[s] ELSE s

(* str.replace(' ', '_'); the replace('_', '_') before it changes nothing *)
ReplaceSpace(s) ==
    CASE s = "intro pad" -> "intro_pad"
      [] s = "Intro Pad" -> "Intro_Pad"
      [] OTHER -> s

(* str.strip() *)
Strip(s) == IF s \in {"", " ", "  "} THEN "" ELSE s

(* str.split(', ') *)
SplitCommaSpace(s) ==
    CASE s = "energetic, warm" -> <<"energetic", "warm">>
      [] s = "Energetic, Warm" -> <<"Energetic", "Warm">>
      [] OTHER -> <<s>>

----------------------------------------------------------------------------
(* clean_empty_fields *)

(* line 75, "if cleaned_dict:" and line 84, "if cleaned_item:" *)
DictKept_checkedBeforeCleaning(value, cleaned_dict) == Truthy(value)

DictKept(value, cleaned_dict) == Truthy(cleaned_dict)

RECURSIVE clean_empty_fields(_)
RECURSIVE CleanListItems(_)

(* lines 80-87: the loop over the items of a list value *)
CleanListItems(l) ==
    IF l = <<>> THEN <<>>
    ELSE LET item == Head(l)
             rest == CleanListItems(Tail(l))
         IN  IF item.t = "dict"
             THEN LET cleaned_item == clean_empty_fields(item)
                  IN  IF DictKept(item, cleaned_item) THEN <<cleaned_item>> \o rest ELSE rest
             ELSE IF item.t # "null" THEN <<item>> \o rest ELSE rest

(* lines 69-96: is the key of this value kept *)
CleanKeeps(value) ==
    CASE value.t = "null" -> FALSE
      [] value.t = "dict" -> DictKept(value, clean_empty_fields(value))
      [] value.t = "list" -> value.l # <<>> /\ CleanListItems(value.l) # <<>>
      [] value.t = "str"  -> Strip(value.s) # ""
      [] OTHER -> TRUE

(* lines 69-96: the value stored under a kept key *)
CleanValue(value) ==
    CASE value.t = "dict" -> clean_empty_fields(value)
      [] value.t = "list" -> List(CleanListItems(value.l))
      [] OTHER -> value

clean_empty_fields(data) ==
    IF data.t # "dict" THEN data
    ELSE Dict([key \in {k \in DOMAIN data.d : CleanKeeps(data.d[k])} |-> CleanValue(data.d[key])])

----------------------------------------------------------------------------
(* Python dicts that the code iterates: the keys in insertion order and the *)
(* mapping itself                                                           *)

EmptyOD == [order |-> <<>>, map |-> EmptyMap]

(* d[key] = val: a new key goes last, an existing key keeps its place *)
Assign_mergeFields(od, key, val) ==
    [order |-> IF key \in DOMAIN od.map THEN od.order ELSE Append(od.order, key),
     map   |-> Update(od.map,
                      One(key, IF key \in DOMAIN od.map
                               THEN Dict(Update(od.map[key].d, val.d))
                               ELSE val))]

Assign(od, key, val) ==
    [order |-> IF key \in DOMAIN od.map THEN od.order ELSE Append(od.order, key),
     map   |-> Update(od.map, One(key, val))]

RECURSIVE UpdateOD(_, _, _)
(* dict.update(other), from position i of other's keys on *)
UpdateOD(od, other, i) ==
    IF i > Len(other.order) THEN od
    ELSE UpdateOD(Assign(od, other.order[i], other.map[other.order[i]]), other, i + 1)

----------------------------------------------------------------------------
(* Field selection of the extractors *)

(* "param in section" raises TypeError when section is no container *)
InRaises(section) == section.t \in {"null", "num", "bool"}

(* "for param in [...]: if param in section: cfg[param] = section[param]"  *)
(* raises when section is no container, or is a list that holds a param    *)
SelectRaises(section, params) ==
    \/ InRaises(section)
    \/ section.t = "list" /\ \E i \in 1..Len(section.l) :
                                 section.l[i].t = "str" /\ section.l[i].s \in params

SelectFields_all(section, params) ==
    IF section.t = "dict" THEN section.d ELSE EmptyMap

SelectFields(section, params) ==
    IF section.t = "dict"
    THEN [p \in params \cap DOMAIN section.d |-> section.d[p]]
    ELSE EmptyMap

(* "if 'name' in record: section = record['name']; ..." *)
SectionConfig(record, name, params) ==
    IF name \in DOMAIN record.d THEN SelectFields(record.d[name], params) ELSE EmptyMap

SectionRaises(record, name, params) ==
    name \in DOMAIN record.d /\ SelectRaises(record.d[name], params)

RECURSIVE NonEmptyDicts(_)
(* "for fx in record['fx']: if isinstance(fx, dict) and fx: effects.append(fx)" *)
NonEmptyDicts(l) ==
    IF l = <<>> THEN <<>>
    ELSE IF Head(l).t = "dict" /\ Truthy(Head(l))
         THEN <<Head(l)>> \o NonEmptyDicts(Tail(l))
         ELSE NonEmptyDicts(Tail(l))

(* "if 'fx' in record and record['fx']:" and the loop after it *)
EffectsOf(record) ==
    IF "fx" \in DOMAIN record.d /\ Truthy(record.d["fx"]) /\ record.d["fx"].t = "list"
    THEN NonEmptyDicts(record.d["fx"].l)
    ELSE <<>>

(* iterating a number or a boolean raises TypeError *)
EffectsRaises(record) ==
    "fx" \in DOMAIN record.d /\ Truthy(record.d["fx"]) /\ record.d["fx"].t \in {"num", "bool"}

ADSRParams == {"type", "attack", "hold", "decay", "sustain", "release", "curve"}

StringParams == {"material", "num_strings", "tuning", "gauge", "detune_range", "tension"}

HarmonicParams == {"vibe_set", "decay_rate", "sympathetic_resonance"}

FilterParams == {"type", "cutoff", "resonance", "envelope_amount", "slope"}

NoiseParams == {"intensity", "burst_length", "noise_type"}

ResonanceParams == {"ir_file", "mix"}

PickParams == {"stiffness", "noiseProbability", "noiseIntensity", "position"}

VibratoParams == {"freq_range", "vibrato_hz", "depth_cents"}

CharParams == {"timbral", "material", "emotional", "dynamic"}

TopoParams == {"damping", "spectral_complexity", "manifold_position"}

OscParams == {"types", "mix_ratios", "detune", "modulation_index", "carrier_ratio",
              "harmonics", "morph_rate", "table_index", "pluck_position",
              "grain_density", "grain_size"}

EnvelopeParams == {"type", "attack", "hold", "decay", "sustain", "release", "delay", "curve"}

GuitarParamSections == {"strings", "harmonics", "filter", "attack_noise", "body_resonance",
                        "pick", "vibrato"}

(* the allow-list of a guitarParams section *)
GuitarParamList(name) ==
    CASE name = "strings"        -> StringParams
      [] name = "harmonics"      -> HarmonicParams
      [] name = "filter"         -> FilterParams
      [] name = "attack_noise"   -> NoiseParams
      [] name = "body_resonance" -> ResonanceParams
      [] name = "pick"           -> PickParams
      [] name = "vibrato"        -> VibratoParams

(* attack_noise is read only "if attack_noise.get('enabled')" *)
NoiseEnabled(record) ==
    /\ "attack_noise" \in DOMAIN record.d
    /\ record.d["attack_noise"].t = "dict"
    /\ "enabled" \in DOMAIN record.d["attack_noise"].d
    /\ Truthy(record.d["attack_noise"].d["enabled"])

(* the content selected for one guitarParams section *)
GuitarParamConfig(record, name) ==
    IF name = "attack_noise" /\ ~NoiseEnabled(record) THEN EmptyMap
    ELSE SectionConfig(record, name, GuitarParamList(name))

GuitarParamRaises(record, name) ==
    IF name = "attack_noise"
    THEN "attack_noise" \in DOMAIN record.d /\ record.d["attack_noise"].t # "dict"
    ELSE SectionRaises(record, name, GuitarParamList(name))

(* str.lower().replace('_', '_').replace(' ', '_') of a record name *)
ExtractKey(name) == ReplaceSpace(Lower(name))

(* the body of the loop over the instruments: the config of one record *)
InstrumentConfig(record) ==
    LET adsr == SectionConfig(record, "envelope", ADSRParams)
        guitar_params ==
            [name \in {n \in GuitarParamSections : GuitarParamConfig(record, n) # EmptyMap}
                |-> Dict(GuitarParamConfig(record, name))]
        effects == EffectsOf(record)
        char_config == SectionConfig(record, "sound_characteristics", CharParams)
        topo_config == SectionConfig(record, "topological_metadata", TopoParams)
        present == {k \in {"adsr", "guitarParams", "effects", "soundCharacteristics",
                           "topologicalMetadata"} :
                       CASE k = "adsr" -> adsr # EmptyMap
                         [] k = "guitarParams" -> guitar_params # EmptyMap
                         [] k = "effects" -> effects # <<>>
                         [] k = "soundCharacteristics" -> char_config # EmptyMap
                         [] k = "topologicalMetadata" -> topo_config # EmptyMap}
    IN  [k \in present |->
            CASE k = "adsr" -> Dict(adsr)
              [] k = "guitarParams" -> Dict(guitar_params)
              [] k = "effects" -> List(effects)
              [] k = "soundCharacteristics" -> Dict(char_config)
              [] k = "topologicalMetadata" -> Dict(topo_config)]

(* the record makes the loop body raise *)
InstrumentRaises(record) ==
    \/ InRaises(record)
    \/ /\ record.t = "dict"
       /\ \/ SectionRaises(record, "envelope", ADSRParams)
          \/ \E n \in GuitarParamSections : GuitarParamRaises(record, n)
          \/ EffectsRaises(record)
          \/ SectionRaises(record, "sound_characteristics", CharParams)
          \/ SectionRaises(record, "topological_metadata", TopoParams)

(* the body of the loop over the groups: the config of one record *)
GroupConfig(record) ==
    LET osc_config == SectionConfig(record, "oscillator", OscParams)
        env_config == SectionConfig(record, "envelope", EnvelopeParams)
        filter_config == SectionConfig(record, "filter", FilterParams)
        effects == EffectsOf(record)
        char_config == SectionConfig(record, "sound_characteristics", CharParams)
        topo_config == SectionConfig(record, "topological_metadata", TopoParams)
        present == {k \in {"synthesis_type", "oscillator", "envelope", "filter", "fx",
                           "sound_characteristics", "topological_metadata"} :
                       CASE k = "synthesis_type" -> "synthesis_type" \in DOMAIN record.d
                         [] k = "oscillator" -> osc_config # EmptyMap
                         [] k = "envelope" -> env_config # EmptyMap
                         [] k = "filter" -> filter_config # EmptyMap
                         [] k = "fx" -> effects # <<>>
                         [] k = "sound_characteristics" -> char_config # EmptyMap
                         [] k = "topological_metadata" -> topo_config # EmptyMap}
    IN  [k \in present |->
            CASE k = "synthesis_type" -> record.d["synthesis_type"]
              [] k = "oscillator" -> Dict(osc_config)
              [] k = "envelope" -> Dict(env_config)
              [] k = "filter" -> Dict(filter_config)
              [] k = "fx" -> List(effects)
              [] k = "sound_characteristics" -> Dict(char_config)
              [] k = "topological_metadata" -> Dict(topo_config)]

GroupRaises(record) ==
    \/ InRaises(record)
    \/ /\ record.t = "dict"
       /\ \/ SectionRaises(record, "oscillator", OscParams)
          \/ SectionRaises(record, "envelope", EnvelopeParams)
          \/ SectionRaises(record, "filter", FilterParams)
          \/ EffectsRaises(record)
          \/ SectionRaises(record, "sound_characteristics", CharParams)
          \/ SectionRaises(record, "topological_metadata", TopoParams)

RECURSIVE FlattenGroups(_)
(* the records of all guitar types that have 'groups', in document order *)
FlattenGroups(types) ==
    IF types = <<>> THEN <<>>
    ELSE (IF Head(types).has_groups THEN Head(types).groups ELSE <<>>)
            \o FlattenGroups(Tail(types))

RECURSIVE AddConfigs(_, _, _)
(* "if config: result[key] = config", for the configs from position i on *)
AddConfigs(od, configs, i) ==
    IF i > Len(configs) THEN od
    ELSE AddConfigs(IF configs[i].config # EmptyMap
                    THEN Assign(od, configs[i].key, Dict(configs[i].config))
                    ELSE od,
                    configs, i + 1)

extract_guitar_instruments(gd) ==
    LET entries == IF gd.has_guitar_types THEN FlattenGroups(gd.guitar_types) ELSE <<>>
        raised == \E i \in 1..Len(entries) : InstrumentRaises(entries[i].data)
    IN  [raised |-> raised,
         instruments |->
            IF raised THEN EmptyOD
            ELSE AddConfigs(EmptyOD,
                            [i \in 1..Len(entries) |->
                                [key |-> ExtractKey(entries[i].name),
                                 config |-> InstrumentConfig(entries[i].data)]], 1)]

extract_group_effects(gd) ==
    LET entries == IF gd.has_groups THEN gd.groups ELSE <<>>
        raised == \E i \in 1..Len(entries) : GroupRaises(entries[i].data)
    IN  [raised |-> raised,
         groups |->
            IF raised THEN EmptyOD
            ELSE AddConfigs(EmptyOD,
                            [i \in 1..Len(entries) |->
                                [key |-> ExtractKey(entries[i].name),
                                 config |-> GroupConfig(entries[i].data)]], 1)]

----------------------------------------------------------------------------
(* apply_structure_mappings *)

StructureFields == {"sectionName", "attackMul", "decayMul", "sustainMul", "releaseMul",
                    "useDynamicGate", "gateThreshold", "gateDecaySec"}

(* dict.get(key): None when the key is absent *)
Get(d, key) == IF key \in DOMAIN d THEN d[key] ELSE Null

(* section['group'].lower().replace('_', '_').replace(' ', '_') *)
StructureGroupKey_caseSensitive(section) == ReplaceSpace(section.d["group"].s)

StructureGroupKey(section) == ReplaceSpace(Lower(section.d["group"].s))

(* "'group' in section" on a non-container, or .lower() of a non-string *)
StructureRaises(sd) ==
    /\ sd.has_sections
    /\ \E i \in 1..Len(sd.sections) :
          \/ InRaises(sd.sections[i])
          \/ /\ sd.sections[i].t = "dict"
             /\ "group" \in DOMAIN sd.sections[i].d
             /\ sd.sections[i].d["group"].t # "str"

(* the structure_map built by the first loop: a later section with the same *)
(* group key replaces an earlier one                                         *)
StructureMap_firstWins(sd) ==
    LET withGroup == {i \in 1..Len(sd.sections) :
                         sd.sections[i].t = "dict" /\ "group" \in DOMAIN sd.sections[i].d}
        first(k) == CHOOSE i \in withGroup :
                      /\ StructureGroupKey(sd.sections[i]) = k
                      /\ \A j \in withGroup : StructureGroupKey(sd.sections[j]) = k => i <= j
    IN  [k \in {StructureGroupKey(sd.sections[i]) : i \in withGroup} |->
            [f \in StructureFields |-> Get(sd.sections[first(k)].d, f)]]

StructureMap(sd) ==
    LET withGroup == {i \in 1..Len(sd.sections) :
                         sd.sections[i].t = "dict" /\ "group" \in DOMAIN sd.sections[i].d}
        last(k) == CHOOSE i \in withGroup :
                      /\ StructureGroupKey(sd.sections[i]) = k
                      /\ \A j \in withGroup : StructureGroupKey(sd.sections[j]) = k => j <= i
    IN  [k \in {StructureGroupKey(sd.sections[i]) : i \in withGroup} |->
            [f \in StructureFields |-> Get(sd.sections[last(k)].d, f)]]

(* "if struct_value is not None" *)
StructureValueKept(struct_value) == struct_value.t # "null"

(* the structure_config of one structure_info *)
StructureConfig(structure_info) ==
    [f \in {g \in DOMAIN structure_info : StructureValueKept(structure_info[g])} |->
        structure_info[f]]

(* "if structure_config:" *)
StructureAttached(structure_config) == structure_config # EmptyMap

apply_structure_mappings(config, sd) ==
    IF ~sd.has_sections THEN [raised |-> FALSE, config |-> config]
    ELSE IF StructureRaises(sd) THEN [raised |-> TRUE, config |-> config]
    ELSE LET structure_map == StructureMap(sd)
             item(key) ==
                IF key \in DOMAIN structure_map
                   /\ StructureAttached(StructureConfig(structure_map[key]))
                THEN Dict(Update(config.map[key].d,
                                 One("structure", Dict(StructureConfig(structure_map[key])))))
                ELSE config.map[key]
         IN  [raised |-> FALSE,
              config |-> [order |-> config.order,
                          map |-> [key \in DOMAIN config.map |-> item(key)]]]

----------------------------------------------------------------------------
(* calculate_internal_layering *)

(* "value in [...]" for a value read with char.get *)
IsOneOf(v, S) == v.t = "str" /\ v.s \in S

(* the layer of one item_config, by the if/elif chain of lines 379-396 *)
LayerOf(item_config) ==
    IF "sound_characteristics" \notin DOMAIN item_config.d THEN 3
    ELSE LET char == item_config.d["sound_characteristics"].d
             dynamic == Get(char, "dynamic")
             timbral == Get(char, "timbral")
         IN  CASE IsOneOf(dynamic, {"ambient", "sustained"}) /\ IsOneOf(timbral, {"warm", "soft"}) -> 1
               [] OTHER ->
             CASE IsOneOf(timbral, {"mellow", "calm"}) -> 2
               [] OTHER ->
             CASE IsOneOf(dynamic, {"percussive"}) /\ IsOneOf(timbral, {"bright", "clear"}) -> 6
               [] OTHER ->
             CASE IsOneOf(timbral, {"energetic", "aggressive"}) -> 5
               [] OTHER ->
             CASE IsOneOf(dynamic, {"punchy", "driving"}) -> 4
               [] OTHER -> 3

(* the config after the call is the config passed in: it is only read *)
LayeredConfig_withLayer(config, layering) ==
    [order |-> config.order,
     map |-> [key \in DOMAIN config.map |->
                Dict(Update(config.map[key].d, One("layer", Num(layering[key]))))]]

LayeredConfig(config, layering) == config

(* the layer of every key of config is stored *)
calculate_internal_layering(config, layering) ==
    LET stored == Update(layering, [key \in DOMAIN config.map |-> LayerOf(config.map[key])])
    IN  [config |-> LayeredConfig(config, stored),
         internal_layering |-> stored]

----------------------------------------------------------------------------
(* calculate_ai_scores; scores and weights in tenths *)

TimbralMatchScore == 10

SectionMatchScore == 8

DefaultWeight == 10

(* [p.lower() for p in user_preferences] *)
LoweredPreferences(prefs) == {Lower(prefs[i]) : i \in 1..Len(prefs)}

(* mood.get('name', '').lower() raises for a non-mapping or a non-string *)
MoodRaises(mood) ==
    \/ mood.t # "dict"
    \/ "name" \in DOMAIN mood.d /\ mood.d["name"].t # "str"

MoodName(mood) == IF "name" \in DOMAIN mood.d THEN Lower(mood.d["name"].s) ELSE ""

HasChar(item_config) == "sound_characteristics" \in DOMAIN item_config.d

(* char.get('timbral', '').lower() *)
TimbralRaises(char) == "timbral" \in DOMAIN char /\ char["timbral"].t # "str"

TimbralLower(char) == IF "timbral" \in DOMAIN char THEN Lower(char["timbral"].s) ELSE ""

(* emotion.get('weight', 1.0) added to a float *)
WeightRaises(emotion) ==
    "weight" \in DOMAIN emotion.d /\ emotion.d["weight"].t \notin {"num", "bool"}

WeightOf_missingIsZero(emotion) ==
    IF "weight" \notin DOMAIN emotion.d THEN 0
    ELSE IF emotion.d["weight"].t = "num" THEN emotion.d["weight"].n
    ELSE IF emotion.d["weight"].b THEN 10 ELSE 0

WeightOf(emotion) ==
    IF "weight" \notin DOMAIN emotion.d THEN DefaultWeight
    ELSE IF emotion.d["weight"].t = "num" THEN emotion.d["weight"].n
    ELSE IF emotion.d["weight"].b THEN 10 ELSE 0

(* emotion.get('tag', '').lower() *)
TagRaises(emotion) == "tag" \in DOMAIN emotion.d /\ emotion.d["tag"].t # "str"

TagLower(emotion) == IF "tag" \in DOMAIN emotion.d THEN Lower(emotion.d["tag"].s) ELSE ""

(* the loop over char['emotional'] for one matched mood *)
EmotionalRaises(char, mood_name) ==
    /\ "emotional" \in DOMAIN char
    /\ \/ char["emotional"].t \in {"null", "num", "bool"}
       \/ /\ char["emotional"].t = "list"
          /\ \E i \in 1..Len(char["emotional"].l) :
                LET emotion == char["emotional"].l[i]
                IN  /\ emotion.t = "dict"
                    /\ \/ TagRaises(emotion)
                       \/ ~TagRaises(emotion) /\ TagLower(emotion) = mood_name
                            /\ WeightRaises(emotion)

RECURSIVE SumWeights(_, _)
SumWeights(emotions, mood_name) ==
    IF emotions = <<>> THEN 0
    ELSE (IF Head(emotions).t = "dict" /\ TagLower(Head(emotions)) = mood_name
          THEN WeightOf(Head(emotions)) ELSE 0)
         + SumWeights(Tail(emotions), mood_name)

EmotionalScore(char, mood_name) ==
    IF "emotional" \in DOMAIN char /\ char["emotional"].t = "list"
    THEN SumWeights(char["emotional"].l, mood_name)
    ELSE 0

(* "if char.get('timbral', '').lower() == mood_name: score += 1.0" *)
TimbralScore(char, mood_name) ==
    IF TimbralLower(char) = mood_name THEN TimbralMatchScore ELSE 0

(* lines 413-427 for one item: does the loop over the moods raise *)
MoodPartRaises(item_config, md, prefs) ==
    /\ md.has_moods
    /\ \E i \in 1..Len(md.moods) :
          \/ MoodRaises(md.moods[i])
          \/ /\ ~MoodRaises(md.moods[i])
             /\ MoodName(md.moods[i]) \in LoweredPreferences(prefs)
             /\ HasChar(item_config)
             /\ LET char == item_config.d["sound_characteristics"].d
                IN  EmotionalRaises(char, MoodName(md.moods[i])) \/ TimbralRaises(char)

RECURSIVE MoodScore(_, _, _)
(* lines 413-427 for one item: what the moods add to its score *)
MoodScore(item_config, moods, prefs) ==
    IF moods = <<>> THEN 0
    ELSE (IF MoodName(Head(moods)) \in LoweredPreferences(prefs) /\ HasChar(item_config)
          THEN LET char == item_config.d["sound_characteristics"].d
               IN  EmotionalScore(char, MoodName(Head(moods)))
                     + TimbralScore(char, MoodName(Head(moods)))
          ELSE 0)
         + MoodScore(item_config, Tail(moods), prefs)

(* lines 430-439 for one item: does the loop over the sections raise *)
SectionPartRaises(item_config, syn, prefs) ==
    /\ syn.has_sections
    /\ \E i \in 1..Len(syn.sections) :
          /\ Lower(syn.sections[i].name) \in LoweredPreferences(prefs)
          /\ \/ InRaises(syn.sections[i].data)
             \/ /\ syn.sections[i].data.t = "dict"
                /\ "emotion" \in DOMAIN syn.sections[i].data.d
                /\ \/ syn.sections[i].data.d["emotion"].t # "str"
                   \/ /\ HasChar(item_config)
                      /\ TimbralRaises(item_config.d["sound_characteristics"].d)

(* the elements of a sequence of strings *)
Elements(q) == {q[i] : i \in 1..Len(q)}

RECURSIVE SectionScore(_, _, _)
(* lines 430-439 for one item: what the sections add to its score *)
SectionScore(item_config, sections, prefs) ==
    IF sections = <<>> THEN 0
    ELSE (IF /\ Lower(Head(sections).name) \in LoweredPreferences(prefs)
             /\ Head(sections).data.t = "dict"
             /\ "emotion" \in DOMAIN Head(sections).data.d
             /\ HasChar(item_config)
             /\ TimbralLower(item_config.d["sound_characteristics"].d)
                   \in Elements(SplitCommaSpace(Lower(Head(sections).data.d["emotion"].s)))
          THEN SectionMatchScore ELSE 0)
         + SectionScore(item_config, Tail(sections), prefs)

ItemScoreRaises(item_config, md, syn, prefs) ==
    MoodPartRaises(item_config, md, prefs) \/ SectionPartRaises(item_config, syn, prefs)

ItemScore(item_config, md, syn, prefs) ==
    (IF md.has_moods THEN MoodScore(item_config, md.moods, prefs) ELSE 0)
    + (IF syn.has_sections THEN SectionScore(item_config, syn.sections, prefs) ELSE 0)

RECURSIVE ScoreFrom(_, _, _, _, _, _)
(* the loop over config.items() from position i on: the score of each key  *)
(* is stored until an item raises                                           *)
ScoreFrom(config, md, syn, prefs, scores, i) ==
    IF i > Len(config.order) THEN [raised |-> FALSE, internal_scores |-> scores]
    ELSE LET key == config.order[i]
         IN  IF ItemScoreRaises(config.map[key], md, syn, prefs)
             THEN [raised |-> TRUE, internal_scores |-> scores]
             ELSE ScoreFrom(config, md, syn, prefs,
                            Update(scores, One(key, ItemScore(config.map[key], md, syn, prefs))),
                            i + 1)

(* the config handed back is the config passed in: it is only read *)
ScoredConfig_withScore(config, scores) ==
    [order |-> config.order,
     map |-> [key \in DOMAIN config.map |->
                IF key \in DOMAIN scores /\ scores[key] > 0
                THEN Dict(Update(config.map[key].d, One("score", Num(scores[key]))))
                ELSE config.map[key]]]

ScoredConfig(config, scores) == config

calculate_ai_scores(config, md, syn, prefs, scores) ==
    LET r == ScoreFrom(config, md, syn, prefs, scores, 1)
    IN  [raised |-> r.raised,
         config |-> ScoredConfig(config, r.internal_scores),
         internal_scores |-> r.internal_scores]

----------------------------------------------------------------------------
(* generate_clean_config *)

generate_clean_config(gd, grp, md, syn, sd, layering, scores, prefs) ==
    LET unchanged == [raised |-> TRUE, config |-> EmptyMap,
                      internal_layering |-> layering, internal_scores |-> scores]
        instruments == extract_guitar_instruments(gd)
        groups == extract_group_effects(grp)
    IN  IF instruments.raised \/ groups.raised THEN unchanged
        ELSE LET merged == UpdateOD(UpdateOD(EmptyOD, instruments.instruments, 1),
                                    groups.groups, 1)
                 joined == apply_structure_mappings(merged, sd)
             IN  IF joined.raised THEN unchanged
                 ELSE LET layered == calculate_internal_layering(joined.config, layering)
                          scored == calculate_ai_scores(layered.config, md, syn, prefs, scores)
                      IN  [raised |-> scored.raised,
                           config |-> IF scored.raised THEN EmptyMap
                                      ELSE clean_empty_fields(Dict(scored.config.map)).d,
                           internal_layering |-> layered.internal_layering,
                           internal_scores |-> scored.internal_scores]

----------------------------------------------------------------------------
(* Trees given to clean_empty_fields on its own *)

MaxListLen == 2

TreeKeys == {"a", "b"}

Scalars == {Null, Str(""), Str(" "), Str("x"), Num(0), Bool(FALSE)}

SeqsUpTo(S, n) == UNION {[1..m -> S] : m \in 0..n}

Inner1 == Scalars \cup {Dict(EmptyMap)} \cup {Dict(One("a", v)) : v \in Scalars}
                  \cup {List(<<>>)} \cup {List(<<v>>) : v \in Scalars}

Inner2 == Inner1 \cup {Dict(One("a", v)) : v \in Inner1}
                 \cup {List(l) : l \in SeqsUpTo(Inner1, MaxListLen)}

Trees == Inner2 \cup {Dict(One("a", v)) : v \in Inner2}
                \cup {Dict([k \in TreeKeys |-> IF k = "a" THEN v ELSE w]) : v \in Inner2, w \in Scalars \cup {Dict(EmptyMap), Dict(One("a", Null))}}

----------------------------------------------------------------------------
(* The checks of validate_config.py *)

RECURSIVE check_for_empty_values(_)
RECURSIVE EmptyValuesIn(_)

(* the issues found in the items of a list *)
EmptyValuesIn(l) ==
    IF l = <<>> THEN 0 ELSE check_for_empty_values(Head(l)) + EmptyValuesIn(Tail(l))

RECURSIVE SumOver(_, _)
(* the sum of f over the keys S *)
SumOver(f, S) ==
    IF S = {} THEN 0
    ELSE LET k == CHOOSE x \in S : TRUE IN f[k] + SumOver(f, S \ {k})

(* the number of issues reported for data *)
check_for_empty_values(data) ==
    CASE data.t = "null" -> 1
      [] data.t = "dict" ->
            (IF DOMAIN data.d = {} THEN 1 ELSE 0)
            + SumOver([k \in DOMAIN data.d |-> check_for_empty_values(data.d[k])], DOMAIN data.d)
      [] data.t = "list" -> (IF data.l = <<>> THEN 1 ELSE 0) + EmptyValuesIn(data.l)
      [] data.t = "str" -> IF Strip(data.s) = "" THEN 1 ELSE 0
      [] OTHER -> 0

(* the reference_keys collected from moods.json and Synthesizer.json *)
ReferenceKeys(md, syn) ==
    (IF md.has_moods
     THEN {Lower(md.moods[i].d["name"].s) :
              i \in {j \in 1..Len(md.moods) : "name" \in DOMAIN md.moods[j].d}}
     ELSE {})
    \cup (IF syn.has_sections
          THEN {Lower(syn.sections[i].name) : i \in 1..Len(syn.sections)}
          ELSE {})

RequiredSections == {"guitarParams", "synthesis_type", "oscillator", "envelope"}

(* the top-level keys reported as potential reference contamination *)
check_reference_contamination(config, md, syn) ==
    {config_key \in DOMAIN config :
        /\ Lower(config_key) \in ReferenceKeys(md, syn)
        /\ RequiredSections \cap DOMAIN config[config_key].d = {}}

(* the top-level keys reported as no valid instrument or group *)
check_top_level_structure(config) ==
    {key \in DOMAIN config :
        \/ config[key].t # "dict"
        \/ {"guitarParams", "synthesis_type", "oscillator"} \cap DOMAIN config[key].d = {}}

ForbiddenKeys == {"layer", "layering", "internal_layer", "ai_score", "score",
                  "internal_score", "layer_assignment", "ai_layer"}

RECURSIVE KeysOf(_)
RECURSIVE KeysOfItems(_)

KeysOfItems(l) == IF l = <<>> THEN {} ELSE KeysOf(Head(l)) \cup KeysOfItems(Tail(l))

(* check_recursive: the mapping keys met at any depth of data *)
KeysOf(data) ==
    CASE data.t = "dict" -> DOMAIN data.d \cup UNION {KeysOf(data.d[k]) : k \in DOMAIN data.d}
      [] data.t = "list" -> KeysOfItems(data.l)
      [] OTHER -> {}

(* the keys reported as internal metadata *)
check_for_internal_metadata(config) ==
    {key \in KeysOf(Dict(config)) : Lower(key) \in ForbiddenKeys}

----------------------------------------------------------------------------
(* The source documents that load_json_files may find *)

Entry(name, data) == [name |-> name, data |-> data]

NylonStrings == Dict([material |-> Str("nylon"), empty_field |-> Str(""), null_field |-> Null])

InstrumentRecords ==
    { Dict(EmptyMap),
      Dict([envelope |-> Dict(EmptyMap), strings |-> Dict(EmptyMap), fx |-> List(<<>>)]),
      Dict([envelope |-> Null, strings |-> NylonStrings, fx |-> List(<<>>)]),
      Dict([strings |-> NylonStrings, fx |-> List(<<>>)]),
      Dict([strings |-> Dict([tuning |-> List(<<Str(""), Str("E")>>)])]),
      Dict([fx |-> List(<<Dict([Score |-> Num(5)]), Dict(EmptyMap)>>)]),
      Dict([envelope |-> Dict([attack |-> Num(1), internal |-> Num(2)])]),
      Dict([sound_characteristics |-> Dict([timbral |-> Str("energetic"),
                                            dynamic |-> Str("punchy")])]),
      Dict([attack_noise |-> Dict([enabled |-> Bool(TRUE), intensity |-> Num(5)]),
            pick |-> Dict([stiffness |-> Null])]),
      Null }

(* the records that are also filed under a second name *)
InstrumentRecordsRenamed ==
    { Dict([strings |-> NylonStrings, fx |-> List(<<>>)]),
      Dict([envelope |-> Dict([attack |-> Num(1), internal |-> Num(2)])]) }

GuitarDoc(types) == [has_guitar_types |-> TRUE, guitar_types |-> types]

GuitarType(groups) == [has_groups |-> TRUE, groups |-> groups]

GuitarDocs ==
    { [has_guitar_types |-> FALSE, guitar_types |-> <<>>] }
    \cup { GuitarDoc(<<GuitarType(<<Entry("Warm", r)>>)>>) : r \in InstrumentRecords }
    \cup { GuitarDoc(<<GuitarType(<<Entry("Intro Pad", r)>>)>>) : r \in InstrumentRecordsRenamed }
    \cup { GuitarDoc(<<[has_groups |-> FALSE, groups |-> <<>>],
                       GuitarType(<<Entry("Intro Pad",
                                          Dict([strings |-> NylonStrings])),
                                    Entry("intro_pad",
                                          Dict([envelope |-> Dict([attack |-> Num(1)])]))>>)>>),
           GuitarDoc(<<GuitarType(<<Entry("Warm", Dict([strings |-> NylonStrings]))>>),
                       GuitarType(<<Entry("Intro Pad", Null)>>)>>) }

GroupRecords ==
    { Dict(EmptyMap),
      Dict([synthesis_type |-> Str("")]),
      Dict([synthesis_type |-> Str("fm")]),
      Dict([synthesis_type |-> Str("fm"),
            sound_characteristics |->
                Dict([timbral |-> Str("Energetic"),
                      emotional |-> List(<<Dict([tag |-> Str("energetic"), weight |-> Num(5)]),
                                           Dict([tag |-> Str("Warm")])>>)])]),
      Dict([synthesis_type |-> Str("fm"),
            sound_characteristics |-> Dict([timbral |-> Null])]),
      Dict([filter |-> Dict([cutoff |-> Num(1), internal |-> Num(2)])]),
      Dict([fx |-> List(<<Dict([layer |-> Num(1)])>>),
            oscillator |-> Dict([types |-> List(<<Str(""), Null>>)])]),
      Dict([envelope |-> Null]),
      Dict([oscillator |-> Dict(EmptyMap), envelope |-> Dict(EmptyMap), fx |-> List(<<>>)]),
      Dict([sound_characteristics |-> Dict([timbral |-> Str("energetic")])]) }

GroupRecordsRenamed ==
    { Dict([synthesis_type |-> Str("fm")]),
      Dict([filter |-> Dict([cutoff |-> Num(1), internal |-> Num(2)])]) }

GroupDoc(groups) == [has_groups |-> TRUE, groups |-> groups]

GroupDocs ==
    { [has_groups |-> FALSE, groups |-> <<>>] }
    \cup { GroupDoc(<<Entry("Intro Pad", r)>>) : r \in GroupRecords }
    \cup { GroupDoc(<<Entry("Warm", r)>>) : r \in GroupRecordsRenamed }
    \cup { GroupDoc(<<Entry("Intro Pad", Dict([synthesis_type |-> Str("fm")])),
                      Entry("intro_pad", Dict(EmptyMap))>>),
           GroupDoc(<<Entry("Warm", Dict([synthesis_type |-> Str("fm")])),
                      Entry("Intro Pad", Null)>>) }

MoodDocs ==
    { [has_moods |-> FALSE, moods |-> <<>>],
      [has_moods |-> TRUE, moods |-> <<Dict([name |-> Str("Energetic")]),
                                       Dict([name |-> Str("warm")])>>],
      [has_moods |-> TRUE, moods |-> <<Dict(EmptyMap), Dict([name |-> Str("energetic")])>>] }

SynthesizerDocs ==
    { [has_sections |-> FALSE, sections |-> <<>>],
      [has_sections |-> TRUE,
       sections |-> <<Entry("Warm", Dict([emotion |-> Str("Energetic, Warm")])),
                      Entry("energetic", Dict(EmptyMap))>>] }

StructureDoc(sections) == [has_sections |-> TRUE, sections |-> sections]

StructureDocs ==
    { [has_sections |-> FALSE, sections |-> <<>>],
      StructureDoc(<<Dict([group |-> Str("intro_pad"), sectionName |-> Str("Intro"),
                           attackMul |-> Num(12), decayMul |-> Null])>>),
      StructureDoc(<<Dict([group |-> Str("Intro Pad"), sectionName |-> Str("")])>>),
      StructureDoc(<<Dict([group |-> Str("intro_pad"), sectionName |-> Str("Intro")]),
                     Dict([group |-> Str("Intro_Pad"), useDynamicGate |-> Bool(FALSE)])>>),
      StructureDoc(<<Dict([group |-> Str("warm"), attackMul |-> Num(12)]),
                     Dict([sectionName |-> Str("Intro")]),
                     Dict([group |-> Str("Warm"), decayMul |-> Null])>>) }

MaxPrefs == 1

PrefWords == {"energetic", "Warm"}

Preferences == SeqsUpTo(PrefWords, MaxPrefs)

----------------------------------------------------------------------------
InitReader ==
    /\ guitar_data = [has_guitar_types |-> FALSE, guitar_types |-> <<>>]
    /\ group_data = [has_groups |-> FALSE, groups |-> <<>>]
    /\ moods_data = [has_moods |-> FALSE, moods |-> <<>>]
    /\ synthesizer_data = [has_sections |-> FALSE, sections |-> <<>>]
    /\ structure_data = [has_sections |-> FALSE, sections |-> <<>>]
    /\ internal_layering = EmptyMap
    /\ internal_scores = EmptyMap
    /\ pc = "start"
    /\ user_preferences = <<>>
    /\ clean_config = EmptyMap
    /\ saved_file = Null

InitIdleClean ==
    /\ tree = Null
    /\ once = Null
    /\ twice = Null
    /\ cpc = "off"

InitIdleCall ==
    /\ call_instruments = EmptyOD
    /\ call_groups = EmptyOD
    /\ call_config = EmptyOD

Init == InitReader /\ InitIdleClean /\ InitIdleCall

(* load_json_files: all five documents are read *)
Load ==
    /\ pc = "start"
    /\ guitar_data' \in GuitarDocs
    /\ group_data' \in GroupDocs
    /\ moods_data' \in MoodDocs
    /\ synthesizer_data' \in SynthesizerDocs
    /\ structure_data' \in StructureDocs
    /\ pc' = "loaded"
    /\ UNCHANGED <<internal_layering, internal_scores, user_preferences, clean_config,
                   saved_file>>
    /\ UNCHANGED cleanVars
    /\ UNCHANGED callVars

(* load_json_files: the n-th file is missing or is no JSON; the documents  *)
(* read before it stay loaded and the exception leaves main                *)
LoadFail ==
    /\ pc = "start"
    /\ \E n \in 1..5 :
          /\ guitar_data' \in IF n > 1 THEN GuitarDocs ELSE {guitar_data}
          /\ group_data' \in IF n > 2 THEN GroupDocs ELSE {group_data}
          /\ moods_data' \in IF n > 3 THEN MoodDocs ELSE {moods_data}
          /\ synthesizer_data' \in IF n > 4 THEN SynthesizerDocs ELSE {synthesizer_data}
          /\ structure_data' = structure_data
    /\ pc' = "load_failed"
    /\ UNCHANGED <<internal_layering, internal_scores, user_preferences, clean_config,
                   saved_file>>
    /\ UNCHANGED cleanVars
    /\ UNCHANGED callVars

(* generate_clean_config(user_preferences) *)
Generate ==
    /\ pc \in {"loaded", "generated"}
    /\ \E prefs \in Preferences :
          \E r \in {generate_clean_config(guitar_data, group_data, moods_data,
                                         synthesizer_data, structure_data,
                                         internal_layering, internal_scores, prefs)} :
              /\ user_preferences' = prefs
              /\ internal_layering' = r.internal_layering
              /\ internal_scores' = r.internal_scores
              /\ clean_config' = IF r.raised THEN clean_config ELSE r.config
              /\ pc' = IF r.raised THEN "raised" ELSE "generated"
    /\ UNCHANGED <<guitar_data, group_data, moods_data, synthesizer_data, structure_data,
                   saved_file>>
    /\ UNCHANGED cleanVars
    /\ UNCHANGED callVars

(* save_config(clean_config) *)
Save_afterFailedLoad ==
    /\ pc \in {"generated", "load_failed"}
    /\ saved_file' = Dict(clean_config)
    /\ pc' = "saved"
    /\ UNCHANGED <<guitar_data, group_data, moods_data, synthesizer_data, structure_data,
                   internal_layering, internal_scores, user_preferences, clean_config>>
    /\ UNCHANGED cleanVars
    /\ UNCHANGED callVars

Save ==
    /\ pc = "generated"
    /\ saved_file' = Dict(clean_config)
    /\ pc' = "saved"
    /\ UNCHANGED <<guitar_data, group_data, moods_data, synthesizer_data, structure_data,
                   internal_layering, internal_scores, user_preferences, clean_config>>
    /\ UNCHANGED cleanVars
    /\ UNCHANGED callVars

Next == Load \/ LoadFail \/ Generate \/ Save

Spec == Init /\ [][Next]_vars

(* clean_empty_fields applied to a tree, and to its own result *)
InitClean ==
    /\ InitReader
    /\ tree \in Trees
    /\ once = Null
    /\ twice = Null
    /\ cpc = "input"
    /\ InitIdleCall

CleanOnce ==
    /\ cpc = "input"
    /\ once' = clean_empty_fields(tree)
    /\ cpc' = "once"
    /\ UNCHANGED <<tree, twice>>
    /\ UNCHANGED readerVars
    /\ UNCHANGED callVars

CleanTwice ==
    /\ cpc = "once"
    /\ twice' = clean_empty_fields(once)
    /\ cpc' = "twice"
    /\ UNCHANGED <<tree, once>>
    /\ UNCHANGED readerVars
    /\ UNCHANGED callVars

NextClean == CleanOnce \/ CleanTwice

SpecClean == InitClean /\ [][NextClean]_vars

(* The layering and the scoring on one record, for every combination of   *)
(* the sound characteristics that they read                                *)

DynamicWords == {"ambient", "sustained", "punchy", "driving", "percussive", "static"}

TimbralWords == {"warm", "soft", "mellow", "calm", "energetic", "aggressive", "bright",
                 "clear", "dark"}

EmotionalLists ==
    { <<>>,
      <<Dict([tag |-> Str("energetic"), weight |-> Num(-5)])>>,
      <<Dict([tag |-> Str("Energetic")])>>,
      <<Dict([weight |-> Num(5)]), Dict(EmptyMap)>>,
      <<Dict([tag |-> Str("warm"), weight |-> Num(5)]),
        Dict([tag |-> Str("energetic"), weight |-> Num(12)])>> }

(* a field that is missing, or has one of the values *)
Optional(field, values) == {EmptyMap} \cup {One(field, v) : v \in values}

ScorerChars ==
    LET dynamics == Optional("dynamic", {Str(w) : w \in DynamicWords})
        timbrals == Optional("timbral", {Str(w) : w \in TimbralWords})
        emotionals == Optional("emotional", {List(l) : l \in EmotionalLists})
    IN  {Update(d, t) : d \in dynamics, t \in timbrals}
        \cup {Update(t, e) : t \in timbrals, e \in emotionals}

ScorerRecords ==
    {Dict([synthesis_type |-> Str("fm")])}
    \cup {Dict([sound_characteristics |-> Dict(char)]) : char \in ScorerChars}

(* the record is the one record of the guitar catalog or of the group      *)
(* catalog                                                                 *)
ScorerCatalogs ==
    {<<GuitarDoc(<<GuitarType(<<Entry("pad", r)>>)>>), [has_groups |-> FALSE, groups |-> <<>>]>> :
        r \in ScorerRecords}
    \cup {<<[has_guitar_types |-> FALSE, guitar_types |-> <<>>], GroupDoc(<<Entry("pad", r)>>)>> :
             r \in ScorerRecords}

InitScorer ==
    /\ \E catalogs \in ScorerCatalogs :
          guitar_data = catalogs[1] /\ group_data = catalogs[2]
    /\ moods_data \in MoodDocs
    /\ synthesizer_data \in SynthesizerDocs
    /\ structure_data = [has_sections |-> FALSE, sections |-> <<>>]
    /\ internal_layering = EmptyMap
    /\ internal_scores = EmptyMap
    /\ pc = "loaded"
    /\ user_preferences = <<>>
    /\ clean_config = EmptyMap
    /\ saved_file = Null
    /\ InitIdleClean
    /\ InitIdleCall

NextScorer == Generate \/ Save

SpecScorer == InitScorer /\ [][NextScorer]_vars

(* generate_clean_config followed statement by statement, once, on the     *)
(* loaded documents                                                        *)

(* lines 452-453: both extractors *)
ExtractStep ==
    /\ pc = "loaded"
    /\ LET i == extract_guitar_instruments(guitar_data)
           g == extract_group_effects(group_data)
       IN  /\ call_instruments' = i.instruments
           /\ call_groups' = IF i.raised THEN call_groups ELSE g.groups
           /\ pc' = IF i.raised \/ g.raised THEN "raised" ELSE "extracted"
    /\ UNCHANGED <<guitar_data, group_data, moods_data, synthesizer_data, structure_data,
                   internal_layering, internal_scores, user_preferences, clean_config,
                   saved_file, call_config>>
    /\ UNCHANGED cleanVars

(* lines 456-458: config = {}; config.update(instruments);                *)
(* config.update(groups)                                                   *)
MergeStep ==
    /\ pc = "extracted"
    /\ call_config' = UpdateOD(UpdateOD(EmptyOD, call_instruments, 1), call_groups, 1)
    /\ pc' = "merged"
    /\ UNCHANGED <<guitar_data, group_data, moods_data, synthesizer_data, structure_data,
                   internal_layering, internal_scores, user_preferences, clean_config,
                   saved_file, call_instruments, call_groups>>
    /\ UNCHANGED cleanVars

(* line 461: config = self.apply_structure_mappings(config) *)
StructureStep ==
    /\ pc = "merged"
    /\ LET joined == apply_structure_mappings(call_config, structure_data)
       IN  /\ call_config' = IF joined.raised THEN call_config ELSE joined.config
           /\ pc' = IF joined.raised THEN "raised" ELSE "joined"
    /\ UNCHANGED <<guitar_data, group_data, moods_data, synthesizer_data, structure_data,
                   internal_layering, internal_scores, user_preferences, clean_config,
                   saved_file, call_instruments, call_groups>>
    /\ UNCHANGED cleanVars

(* line 464: self.calculate_internal_layering(config) *)
LayeringStep ==
    /\ pc = "joined"
    /\ LET layered == calculate_internal_layering(call_config, internal_layering)
       IN  /\ call_config' = layered.config
           /\ internal_layering' = layered.internal_layering
    /\ pc' = "layered"
    /\ UNCHANGED <<guitar_data, group_data, moods_data, synthesizer_data, structure_data,
                   internal_scores, user_preferences, clean_config, saved_file,
                   call_instruments, call_groups>>
    /\ UNCHANGED cleanVars

(* line 465: self.calculate_ai_scores(config, user_preferences); the       *)
(* argument of the call is first read here                                 *)
ScoresStep ==
    /\ pc = "layered"
    /\ \E prefs \in Preferences :
          \E scored \in {calculate_ai_scores(call_config, moods_data, synthesizer_data,
                                              prefs, internal_scores)} :
              /\ user_preferences' = prefs
              /\ call_config' = scored.config
              /\ internal_scores' = scored.internal_scores
              /\ pc' = IF scored.raised THEN "raised" ELSE "scored"
    /\ UNCHANGED <<guitar_data, group_data, moods_data, synthesizer_data, structure_data,
                   internal_layering, clean_config, saved_file, call_instruments,
                   call_groups>>
    /\ UNCHANGED cleanVars

(* lines 468-474: config = self.clean_empty_fields(config); return config  *)
CleanStep ==
    /\ pc = "scored"
    /\ clean_config' = clean_empty_fields(Dict(call_config.map)).d
    /\ pc' = "generated"
    /\ UNCHANGED <<guitar_data, group_data, moods_data, synthesizer_data, structure_data,
                   internal_layering, internal_scores, user_preferences, saved_file>>
    /\ UNCHANGED callVars
    /\ UNCHANGED cleanVars

NextSteps ==
    Load \/ ExtractStep \/ MergeStep \/ StructureStep \/ LayeringStep \/ ScoresStep
         \/ CleanStep

SpecSteps == Init /\ [][NextSteps]_vars

----------------------------------------------------------------------------
(* What the claims speak of *)

(* generate_clean_config has returned the document clean_config *)
Returned == pc \in {"generated", "saved"}

(* the records of both catalogs, as name/data entries *)
InstrumentEntries ==
    IF guitar_data.has_guitar_types THEN FlattenGroups(guitar_data.guitar_types) ELSE <<>>

GroupEntries == IF group_data.has_groups THEN group_data.groups ELSE <<>>

AllEntries == InstrumentEntries \o GroupEntries

(* lower-cased, spaces to underscores *)
NormalizedKey(name) == ReplaceSpace(Lower(name))

(* no other record of the two catalogs has the normalized key of record i *)
KeyUnshared(i) ==
    \A j \in 1..Len(AllEntries) :
        j # i => NormalizedKey(AllEntries[j].name) # NormalizedKey(AllEntries[i].name)

(* the structure-catalog entries whose normalized group name is key *)
StructureMatches(key) ==
    IF ~structure_data.has_sections THEN {}
    ELSE {i \in 1..Len(structure_data.sections) :
             /\ "group" \in DOMAIN structure_data.sections[i].d
             /\ NormalizedKey(structure_data.sections[i].d["group"].s) = key}

(* the fields of a structure-catalog entry that are present and not null *)
NonNullFields(section) ==
    {f \in StructureFields \cap DOMAIN section.d : section.d[f].t # "null"}

(* ... and are no blank string either *)
NonBlankFields(section) ==
    {f \in NonNullFields(section) : section.d[f].t = "str" => Strip(section.d[f].s) # ""}

(* the structure section of an output entry; no section is the empty mapping *)
StructureOf(entry) ==
    IF "structure" \in DOMAIN entry.d THEN entry.d["structure"].d ELSE EmptyMap

Last(S) == CHOOSE i \in S : \A j \in S : j <= i

----------------------------------------------------------------------------
(* C1: no node of a returned document is null, a blank string, an empty    *)
(* list or an empty mapping: check_for_empty_values reports no issue on    *)
(* any entry of it.                                                        *)
C1_NoEmptyValues ==
    Returned => \A key \in DOMAIN clean_config : check_for_empty_values(clean_config[key]) = 0

(* C3 as stated: an entry has a structure section iff its key is the       *)
(* normalized group name of a structure-catalog entry with a non-null      *)
(* field.                                                                  *)
C3_StructureIffNonNull ==
    Returned =>
        \A key \in DOMAIN clean_config :
            "structure" \in DOMAIN clean_config[key].d
              <=> \E i \in StructureMatches(key) :
                      NonNullFields(structure_data.sections[i]) # {}

(* C3 as amended: an entry has a structure section iff its key is the      *)
(* normalized group name of a structure-catalog entry and the last such    *)
(* entry has a field that is neither null nor a blank string.              *)
C3_StructureIffKept ==
    Returned =>
        \A key \in DOMAIN clean_config :
            "structure" \in DOMAIN clean_config[key].d
              <=> /\ StructureMatches(key) # {}
                  /\ NonBlankFields(structure_data.sections[Last(StructureMatches(key))]) # {}

(* a returned entry has a structure section while two catalog entries      *)
(* carry its group name                                                    *)
C3_Witness ==
    /\ Returned
    /\ \E key \in DOMAIN clean_config :
          /\ "structure" \in DOMAIN clean_config[key].d
          /\ Cardinality(StructureMatches(key)) = 2

(* C4: no mapping key at any depth of a returned document is, in lower     *)
(* case, one of layer, layering, score, ai_score, internal_layer,          *)
(* internal_score, stage.                                                  *)
C4_NoInternalMetadataKeys ==
    Returned =>
        \A key \in KeysOf(Dict(clean_config)) :
            Lower(key) \notin {"layer", "layering", "score", "ai_score", "internal_layer",
                               "internal_score", "stage"}

(* C5: check_reference_contamination reports no issue on a returned        *)
(* document: a key that is a mood or section name carries guitarParams,    *)
(* synthesis_type, oscillator or envelope.                                 *)
C5_NoReferenceContamination ==
    Returned => check_reference_contamination(clean_config, moods_data, synthesizer_data) = {}

C7Record == Dict([envelope |-> Null, strings |-> NylonStrings, fx |-> List(<<>>)])

(* the instrument catalog holds the record of the scenario and nothing     *)
(* else is loaded that makes an entry                                      *)
C7Scenario ==
    /\ guitar_data = GuitarDoc(<<GuitarType(<<Entry("Warm", C7Record)>>)>>)
    /\ ~group_data.has_groups
    /\ ~structure_data.has_sections
    /\ pc \in {"generated", "saved", "raised"}

(* C7: the record envelope: null, strings: {material: "nylon",             *)
(* empty_field: "", null_field: null}, fx: [] gives the entry              *)
(* {guitarParams: {strings: {material: "nylon"}}}: the run completes.      *)
C7_NullEnvelopeOmitted ==
    C7Scenario =>
        /\ Returned
        /\ clean_config =
              One("warm", Dict(One("guitarParams",
                                   Dict(One("strings", Dict(One("material", Str("nylon"))))))))

(* the group records whose entry is in the returned document *)
EmittedGroups ==
    {i \in 1..Len(GroupEntries) : NormalizedKey(GroupEntries[i].name) \in DOMAIN clean_config}

(* C8 as stated: the structure section of a group's entry is the mapping   *)
(* of the non-null fields of a structure-catalog entry with its name.      *)
C8_StructureIsNonNullFields ==
    Returned =>
        \A i \in EmittedGroups :
            LET key == NormalizedKey(GroupEntries[i].name)
            IN  \A m \in StructureMatches(key) :
                    LET section == structure_data.sections[m].d
                    IN  StructureOf(clean_config[key])
                          = [f \in NonNullFields(structure_data.sections[m]) |-> section[f]]

(* C8 as amended: it is the mapping of the fields of the last such entry   *)
(* that are neither null nor a blank string.                               *)
C8_StructureIsKeptFields ==
    Returned =>
        \A i \in EmittedGroups :
            LET key == NormalizedKey(GroupEntries[i].name)
            IN  StructureMatches(key) # {} =>
                    LET section == structure_data.sections[Last(StructureMatches(key))]
                    IN  StructureOf(clean_config[key])
                          = [f \in NonBlankFields(section) |-> section.d[f]]

(* the scenario: "Intro Pad" with {group: "intro_pad", sectionName:        *)
(* "Intro", attackMul: 1.2, decayMul: null}                                *)
C8_Witness ==
    /\ Returned
    /\ \E i \in EmittedGroups : GroupEntries[i].name = "Intro Pad"
    /\ structure_data.has_sections
    /\ structure_data.sections =
          <<Dict([group |-> Str("intro_pad"), sectionName |-> Str("Intro"),
                  attackMul |-> Num(12), decayMul |-> Null])>>
    /\ "intro_pad" \in DOMAIN clean_config
    /\ StructureOf(clean_config["intro_pad"]) = [sectionName |-> Str("Intro"), attackMul |-> Num(12)]

(* every section of the record is an empty mapping, list or string *)
AllSectionsEmpty(record) ==
    /\ record.t = "dict"
    /\ \A name \in DOMAIN record.d :
          \/ record.d[name] \in {Dict(EmptyMap), List(<<>>)}
          \/ record.d[name].t = "str" /\ Strip(record.d[name].s) = ""

(* C9: a record whose every section is absent or empty, and whose key no   *)
(* other record has, is no key of the returned document.                   *)
C9_EmptyRecordDropped ==
    Returned =>
        \A i \in 1..Len(AllEntries) :
            AllSectionsEmpty(AllEntries[i].data) /\ KeyUnshared(i)
                => NormalizedKey(AllEntries[i].name) \notin DOMAIN clean_config

(* the record has sound_characteristics.timbral == "energetic" *)
TimbralEnergetic(record) ==
    /\ record.t = "dict"
    /\ "sound_characteristics" \in DOMAIN record.d
    /\ record.d["sound_characteristics"].t = "dict"
    /\ "timbral" \in DOMAIN record.d["sound_characteristics"].d
    /\ record.d["sound_characteristics"].d["timbral"] = Str("energetic")

(* C10: with preferences ["energetic"] and a mood of that name, every      *)
(* entry whose record has timbral "energetic" has a score of at least 1.0  *)
(* and no score field.                                                     *)
C10_TimbralMatchScored ==
    /\ Returned
    /\ user_preferences = <<"energetic">>
    /\ "energetic" \in ReferenceKeys(moods_data, [has_sections |-> FALSE, sections |-> <<>>])
    => \A i \in 1..Len(AllEntries) :
          LET key == NormalizedKey(AllEntries[i].name)
          IN  TimbralEnergetic(AllEntries[i].data) /\ KeyUnshared(i) /\ key \in DOMAIN clean_config
                => /\ internal_scores[key] >= 10
                   /\ "score" \notin DOMAIN clean_config[key].d

----------------------------------------------------------------------------
(* C2: clean_empty_fields is idempotent: cleaning the result of a cleaning *)
(* gives that result again, for every tree.                                *)
C2_Idempotent == cpc = "twice" => twice = once

(* a mapping with a list that the first cleaning kept but changed has      *)
(* been cleaned twice                                                      *)
C2_Witness ==
    /\ cpc = "twice"
    /\ tree.t = "dict"
    /\ once # tree
    /\ \E k \in DOMAIN tree.d : tree.d[k].t = "list" /\ k \in DOMAIN once.d
                                 /\ once.d[k] # tree.d[k]

----------------------------------------------------------------------------
(* the keys of a record under which the extractors expect a mapping *)
MappingSections ==
    {"envelope", "strings", "harmonics", "filter", "attack_noise", "resonance", "pick",
     "vibrato", "oscillator", "sound_characteristics", "topological_metadata"}

(* a record that is no mapping, or holds a non-mapping where a section is  *)
(* expected                                                                *)
MalformedRecord(record) ==
    \/ record.t # "dict"
    \/ \E k \in MappingSections \cap DOMAIN record.d : record.d[k].t # "dict"

WellFormedOnly(entries) == SelectSeq(entries, LAMBDA e : ~MalformedRecord(e.data))

(* the loaded catalogs without their malformed records *)
GuitarWellFormed ==
    [has_guitar_types |-> guitar_data.has_guitar_types,
     guitar_types |->
        [i \in 1..Len(guitar_data.guitar_types) |->
            LET type == guitar_data.guitar_types[i]
            IN  [has_groups |-> type.has_groups, groups |-> WellFormedOnly(type.groups)]]]

GroupWellFormed ==
    [has_groups |-> group_data.has_groups, groups |-> WellFormedOnly(group_data.groups)]

(* generate_clean_config has been called and has returned or raised *)
Called == pc \in {"generated", "saved", "raised"}

(* C12: a call on catalogs holding a malformed record does not fail: it    *)
(* returns the document that the catalogs without their malformed records  *)
(* give.                                                                   *)
C12_MalformedRecordSkipped ==
    /\ Called
    /\ \E i \in 1..Len(AllEntries) : MalformedRecord(AllEntries[i].data)
    => /\ Returned
       /\ clean_config =
             generate_clean_config(GuitarWellFormed, GroupWellFormed, moods_data,
                                   synthesizer_data, structure_data, internal_layering,
                                   internal_scores, user_preferences).config

----------------------------------------------------------------------------
(* C19: every entry of a returned document is a mapping with a             *)
(* guitarParams, synthesis_type or oscillator section:                     *)
(* check_top_level_structure reports no issue on it.                       *)
C19_TopLevelStructureValid == Returned => check_top_level_structure(clean_config) = {}

----------------------------------------------------------------------------
(* C20: after every returned call the keys of internal_layering and of     *)
(* internal_scores are the keys of the returned document.                  *)
C20_TablesKeyedByDocument ==
    Returned => /\ DOMAIN internal_layering = DOMAIN clean_config
                /\ DOMAIN internal_scores = DOMAIN clean_config

----------------------------------------------------------------------------
(* the keys that both extractors produce an entry for *)
CollidingKeys ==
    LET instruments == extract_guitar_instruments(guitar_data)
        groups == extract_group_effects(group_data)
    IN  IF instruments.raised \/ groups.raised THEN {}
        ELSE DOMAIN instruments.instruments.map \cap DOMAIN groups.groups.map

(* the document that the loaded documents give without the guitar catalog *)
GroupOnlyDocument ==
    generate_clean_config([has_guitar_types |-> FALSE, guitar_types |-> <<>>], group_data,
                          moods_data, synthesizer_data, structure_data, internal_layering,
                          internal_scores, user_preferences).config

(* C13: where an instrument record and a group record give the same key,   *)
(* the output entry of that key is the group-derived entry with its        *)
(* structure section, as if the instrument record did not exist.           *)
C13_GroupEntryReplacesInstrumentEntry ==
    Returned =>
        \A key \in CollidingKeys :
            /\ key \in DOMAIN clean_config <=> key \in DOMAIN GroupOnlyDocument
            /\ key \in DOMAIN clean_config => clean_config[key] = GroupOnlyDocument[key]

(* an emitted entry of a colliding key lacks the guitarParams section that *)
(* the instrument record of that key gave                                  *)
C13_Witness ==
    /\ Returned
    /\ \E key \in CollidingKeys \cap DOMAIN clean_config :
          /\ "guitarParams" \in
                DOMAIN extract_guitar_instruments(guitar_data).instruments.map[key].d
          /\ "guitarParams" \notin DOMAIN clean_config[key].d

----------------------------------------------------------------------------
(* C15: a run whose loading failed stays failed, and nothing has been      *)
(* written in it: save_config is not reached.                              *)
C15_FailedLoadWritesNothing ==
    [][/\ pc = "load_failed" => pc' = "load_failed"
       /\ pc' = "load_failed" => saved_file' = Null]_vars

(* loading failed at a later file, after the guitar catalog was read *)
C15_Witness == pc = "load_failed" /\ guitar_data.has_guitar_types /\ saved_file = Null

----------------------------------------------------------------------------
(* C14: the steps of calculate_internal_layering and calculate_ai_scores   *)
(* leave the config passed to them and the five loaded documents as they   *)
(* were; of the reader's state they change only the two internal tables.   *)
C14_CalculationsOnlyWriteTables ==
    [][(pc \in {"joined", "layered"}) =>
          /\ UNCHANGED <<guitar_data, group_data, moods_data, synthesizer_data,
                         structure_data>>
          /\ UNCHANGED <<clean_config, saved_file, call_instruments, call_groups>>
          /\ call_config' = call_config]_vars

(* both calculations have run on a config with an entry that got a layer   *)
(* other than the default and a positive score                             *)
C14_Witness ==
    /\ pc = "scored"
    /\ \E key \in DOMAIN call_config.map :
          internal_layering[key] # 3 /\ internal_scores[key] > 0

----------------------------------------------------------------------------
(* the allow-listed sections of an instrument record: the key in the       *)
(* record, the key in the extracted entry, the allow-list                  *)
InstrumentSections ==
    { <<"envelope", "adsr", ADSRParams>>,
      <<"sound_characteristics", "soundCharacteristics", CharParams>>,
      <<"topological_metadata", "topologicalMetadata", TopoParams>> }

(* the same for a group record *)
GroupSections ==
    { <<"oscillator", "oscillator", OscParams>>,
      <<"envelope", "envelope", EnvelopeParams>>,
      <<"filter", "filter", FilterParams>>,
      <<"sound_characteristics", "sound_characteristics", CharParams>>,
      <<"topological_metadata", "topological_metadata", TopoParams>> }

(* produced holds the allow-listed fields of source, each with its value *)
ExactlyAllowed(produced, source, allowed) ==
    /\ produced.t = "dict"
    /\ source.t = "dict"
    /\ DOMAIN produced.d = DOMAIN source.d \cap allowed
    /\ \A f \in DOMAIN produced.d : produced.d[f] = source.d[f]

(* every section of sections that entry has is the allow-listed part of    *)
(* the record's section                                                    *)
SectionsAllowed(entry, record, sections) ==
    \A s \in sections :
        s[2] \in DOMAIN entry.d =>
            /\ s[1] \in DOMAIN record.d
            /\ ExactlyAllowed(entry.d[s[2]], record.d[s[1]], s[3])

(* no other record of entries has the key of record i *)
OnlyOfKey(entries, i) ==
    \A j \in 1..Len(entries) :
        j # i => NormalizedKey(entries[j].name) # NormalizedKey(entries[i].name)

----------------------------------------------------------------------------
(* the value of a sound characteristic of a record; null when the record   *)
(* has no such characteristic                                              *)
Characteristic(record, field) ==
    IF /\ record.t = "dict"
       /\ "sound_characteristics" \in DOMAIN record.d
       /\ record.d["sound_characteristics"].t = "dict"
       /\ field \in DOMAIN record.d["sound_characteristics"].d
    THEN record.d["sound_characteristics"].d[field]
    ELSE Null

(* the first matching rule in the order 1, 2, 4, 5, 6, else 3 *)
FirstMatchingRule(dynamic, timbral) ==
    IF IsOneOf(dynamic, {"ambient", "sustained"}) /\ IsOneOf(timbral, {"warm", "soft"}) THEN 1
    ELSE IF IsOneOf(timbral, {"mellow", "calm"}) THEN 2
    ELSE IF IsOneOf(dynamic, {"punchy", "driving"}) THEN 4
    ELSE IF IsOneOf(timbral, {"energetic", "aggressive"}) THEN 5
    ELSE IF IsOneOf(dynamic, {"percussive"}) /\ IsOneOf(timbral, {"bright", "clear"}) THEN 6
    ELSE 3

(* C11: the layer stored for an output entry, instrument-derived or        *)
(* group-derived, is the first matching rule in the order 1, 2, 4, 5, 6,   *)
(* else 3, on its record's dynamic and timbral values.                     *)
C11_LayerIsFirstMatchingRule ==
    Returned =>
        \A i \in 1..Len(AllEntries) :
            LET key == NormalizedKey(AllEntries[i].name)
            IN  KeyUnshared(i) /\ key \in DOMAIN clean_config =>
                  internal_layering[key] =
                      FirstMatchingRule(Characteristic(AllEntries[i].data, "dynamic"),
                                        Characteristic(AllEntries[i].data, "timbral"))

----------------------------------------------------------------------------
(* C17: after a call every stored layer is one of 1..6 and no stored score *)
(* is negative.                                                            *)
C17_AnnotationsInRange ==
    Called =>
        /\ \A key \in DOMAIN internal_layering : internal_layering[key] \in 1..6
        /\ \A key \in DOMAIN internal_scores : internal_scores[key] >= 0

----------------------------------------------------------------------------
(* the loaded catalogs with F applied to the sound characteristics of      *)
(* every record that has them                                              *)
CharReplaced(record, F(_)) ==
    IF ~(/\ record.t = "dict"
         /\ "sound_characteristics" \in DOMAIN record.d
         /\ record.d["sound_characteristics"].t = "dict")
    THEN record
    ELSE Dict(Update(record.d,
                     One("sound_characteristics",
                         Dict(F(record.d["sound_characteristics"].d)))))

EntriesReplaced(entries, F(_)) ==
    [i \in 1..Len(entries) |-> Entry(entries[i].name, CharReplaced(entries[i].data, F))]

GuitarReplaced(F(_)) ==
    [has_guitar_types |-> guitar_data.has_guitar_types,
     guitar_types |->
        [i \in 1..Len(guitar_data.guitar_types) |->
            LET type == guitar_data.guitar_types[i]
            IN  [has_groups |-> type.has_groups,
                 groups |-> EntriesReplaced(type.groups, F)]]]

GroupReplaced(F(_)) ==
    [has_groups |-> group_data.has_groups, groups |-> EntriesReplaced(group_data.groups, F)]

(* a call on the given documents stores the layers and scores that the     *)
(* call on the loaded documents has stored                                 *)
SameAnnotations(gd, grp, md, syn) ==
    LET r == generate_clean_config(gd, grp, md, syn, structure_data, EmptyMap, EmptyMap,
                                   user_preferences)
    IN  /\ ~r.raised
        /\ \A key \in DOMAIN internal_layering :
              /\ key \in DOMAIN r.internal_layering
              /\ r.internal_layering[key] = internal_layering[key]
        /\ \A key \in DOMAIN internal_scores :
              /\ key \in DOMAIN r.internal_scores
              /\ r.internal_scores[key] = internal_scores[key]

(* what has a missing field is taken away: the emotional tags lacking tag  *)
(* or weight, the moods lacking a name, the sections lacking emotion       *)
StrippedChar(char) ==
    IF "emotional" \in DOMAIN char /\ char["emotional"].t = "list"
    THEN Update(char,
                One("emotional",
                    List(SelectSeq(char["emotional"].l,
                                   LAMBDA e : e.t = "dict" /\ "tag" \in DOMAIN e.d
                                                /\ "weight" \in DOMAIN e.d))))
    ELSE char

StrippedMoods ==
    [has_moods |-> moods_data.has_moods,
     moods |-> SelectSeq(moods_data.moods, LAMBDA m : "name" \in DOMAIN m.d)]

StrippedSections ==
    [has_sections |-> synthesizer_data.has_sections,
     sections |-> SelectSeq(synthesizer_data.sections,
                            LAMBDA e : e.data.t = "dict" /\ "emotion" \in DOMAIN e.data.d)]

(* C18 as stated: a call on documents with missing optional fields         *)
(* completes, and what has a missing field adds nothing: the stored layers *)
(* and scores are those of the documents without it.                       *)
C18_MissingFieldAddsNothing ==
    Called =>
        /\ pc # "raised"
        /\ SameAnnotations(GuitarReplaced(StrippedChar), GroupReplaced(StrippedChar),
                           StrippedMoods, StrippedSections)

(* every missing field is filled in with its default: the empty string for *)
(* name, tag, timbral and dynamic, 1.0 for weight, no tags for emotional   *)
DefaultedTag(e) ==
    IF e.t # "dict" THEN e
    ELSE Dict(Update([tag |-> Str(""), weight |-> Num(10)], e.d))

DefaultedChar(char) ==
    LET filled == Update([timbral |-> Str(""), dynamic |-> Str(""), emotional |-> List(<<>>)],
                         char)
    IN  IF filled["emotional"].t = "list"
        THEN Update(filled,
                    One("emotional",
                        List([i \in 1..Len(filled["emotional"].l) |->
                                 DefaultedTag(filled["emotional"].l[i])])))
        ELSE filled

DefaultedMoods ==
    [has_moods |-> moods_data.has_moods,
     moods |-> [i \in 1..Len(moods_data.moods) |->
                   Dict(Update([name |-> Str("")], moods_data.moods[i].d))]]

(* C18, amended: a call on documents with missing optional fields          *)
(* completes, and a missing field counts as its default, 1.0 for a weight: *)
(* the stored layers and scores are those of the documents with the        *)
(* defaults filled in and the sections lacking emotion taken away.         *)
C18_MissingFieldIsDefault ==
    Called =>
        /\ pc # "raised"
        /\ SameAnnotations(GuitarReplaced(DefaultedChar), GroupReplaced(DefaultedChar),
                           DefaultedMoods, StrippedSections)

(* a group entry whose one emotional tag has no weight has the score 1.0,  *)
(* beside a mood lacking a name and a section lacking emotion              *)
C18_Witness ==
    /\ Returned
    /\ \E i \in 1..Len(GroupEntries) :
          /\ Characteristic(GroupEntries[i].data, "emotional")
                = List(<<Dict([tag |-> Str("Energetic")])>>)
          /\ Characteristic(GroupEntries[i].data, "timbral") = Null
          /\ internal_scores[NormalizedKey(GroupEntries[i].name)] = 10
    /\ \E i \in 1..Len(moods_data.moods) : "name" \notin DOMAIN moods_data.moods[i].d
    /\ \E i \in 1..Len(synthesizer_data.sections) :
          "emotion" \notin DOMAIN synthesizer_data.sections[i].data.d

====
